---- MODULE Spec2Model ----
(***************************************************************************)
(* Model of models/model_composite.py: the Model_Composite base class that *)
(* keeps the per-epoch train/test loss and accuracy history of a network   *)
(* and offers model_train, model_test, get_norm, plot_accuracy, plot_loss  *)
(* and get_incorrect_pred.                                                 *)
(*                                                                         *)
(* The collaborators (data loader, network forward pass, loss function,    *)
(* optimizer, scheduler, matplotlib) are the environment: what they yield  *)
(* is drawn from small sets, and the calls made on them are recorded, in   *)
(* order, in log.  A batch of a training or test pass is given by len(data)*)
(* (n), the number of positions where the prediction equals the target (c) *)
(* and the value of the loss call (loss).  Floats are exact rationals,     *)
(* kept as reduced pairs <<numerator, denominator>>.                       *)
(***************************************************************************)
EXTENDS Integers, Sequences, FiniteSets, TLC

VARIABLES
  train_accuracy,  \* self.train_accuracy
  test_accuracy,   \* self.test_accuracy
  train_losses,    \* self.train_losses
  test_losses,     \* self.test_losses
  norm_type,       \* self.norm_type
  n_groups,        \* self.n_groups
  pc,              \* "idle", "train_loop", "test_loop", "done", "raised"
  op,              \* the method being executed, "none" when idle
  args,            \* the arguments of the running call
  locals,          \* the local variables of the running call
  log,             \* calls made on the collaborators by the running call
  ret,             \* what the call returned, printed or raised
  pre,             \* the four history lists as they were when the call began
  outcomes         \* how many calls ended in each way that adds to the history

hist == <<train_accuracy, test_accuracy, train_losses, test_losses>>
frame == <<op, args, locals, log, ret, pre>>
config == <<norm_type, n_groups>>
vars == <<train_accuracy, test_accuracy, train_losses, test_losses,
          norm_type, n_groups, pc, op, args, locals, log, ret, pre, outcomes>>

----------------------------------------------------------------------------
(* Bounds of the model and the input sets. *)

MaxBatches == 2      \* batches one data loader yields, at most
MaxEpochs == 2       \* entries per history list before calls stop
MaxBatchLen == 3     \* samples in the batch get_incorrect_pred inspects
MaxTopN == 3         \* largest top_n passed to get_incorrect_pred
MaxChannels == 8     \* largest n_channels passed to get_norm
MaxGroups == 4       \* largest n_groups assigned by the owner

Min(a, b) == IF a < b THEN a ELSE b
Abs(a) == IF a < 0 THEN -a ELSE a
Last(s) == s[Len(s)]

RECURSIVE GCD(_, _)
GCD(a, b) == IF b = 0 THEN a ELSE GCD(b, a % b)

\* The float n/d (d > 0) as a reduced fraction.
Frac(n, d) == LET g == GCD(Abs(n), d) IN <<n \div g, d \div g>>

FracSub(x, y) == Frac(x[1] * y[2] - y[1] * x[2], x[2] * y[2])

\* round(x, digits) and the '{:0.<digits>f}' formats: the nearest multiple of
\* 10^-digits, ties to even, as a count of such units.
RECURSIVE Pow10(_)
Pow10(k) == IF k = 0 THEN 1 ELSE 10 * Pow10(k - 1)

Round(x, digits) ==
  LET num == Abs(x[1]) * Pow10(digits)
      q == num \div x[2]
      r == num % x[2]
      m == IF 2 * r > x[2] THEN q + 1
           ELSE IF 2 * r = x[2] THEN q + (q % 2)
           ELSE q
  IN IF x[1] < 0 THEN -m ELSE m

RECURSIVE SumSeq(_)
SumSeq(s) == IF s = <<>> THEN 0 ELSE s[1] + SumSeq(Tail(s))

RECURSIVE Repeat(_, _)
Repeat(s, k) == IF k = 0 THEN <<>> ELSE s \o Repeat(s, k - 1)

NoArgs == [kind |-> "none"]
NoLocals == [kind |-> "none"]
NoRet == [kind |-> "none"]
NoPre == <<>>

----------------------------------------------------------------------------
(* The environment: data loaders, batches, loss values. *)

DatasetSizes == {0, 2, 3}     \* len(test_loader.dataset)
BatchSizes == {1, 2}          \* test_loader.batch_size
Losses == {1, 2}              \* values of one loss call

\* A data loader: the size of its dataset, its batch size and the number of
\* batches one pass yields.  The sampler decides the latter, so the number of
\* samples iterated need not equal ds; an empty dataset yields nothing.
Loaders ==
  {ld \in [ds : DatasetSizes, bs : BatchSizes, nb : 0..MaxBatches] :
     ld.ds = 0 => ld.nb = 0}

\* The loaders of the runs over several epochs: an empty dataset, or two
\* samples of which a pass draws none or one.
EpochLoaders ==
  {ld \in [ds : {0, 2}, bs : {1}, nb : 0..1] : ld.ds = 0 => ld.nb = 0}

\* The documented scenario: 100 samples in 5 batches of 20.
ScenarioLoaders == {[ds |-> 100, bs |-> 20, nb |-> 5]}

\* The batches a loader may yield: full or about half full, with none, half
\* or all of the predictions right.
BatchLens(bs) == {bs, (bs + 1) \div 2}
Corrects(n) == {0, n \div 2, n}
Batches(ld) ==
  {b \in [n : BatchLens(ld.bs), c : 0..ld.bs, loss : Losses] : b.c \in Corrects(b.n)}

Criteria == {"accepts_reduction", "rejects_reduction"}

----------------------------------------------------------------------------
(* __init__ *)

Init ==
  /\ train_accuracy = <<>>
  /\ test_accuracy = <<>>
  /\ train_losses = <<>>
  /\ test_losses = <<>>
  /\ norm_type = "bn"
  /\ n_groups = 2
  /\ pc = "idle"
  /\ op = "none"
  /\ args = NoArgs
  /\ locals = NoLocals
  /\ log = <<>>
  /\ ret = NoRet
  /\ pre = NoPre
  /\ outcomes = [train_done |-> 0, test_done |-> 0,
                 test_index_error |-> 0, test_zero_division |-> 0]

Returned(v) == [kind |-> "returned", value |-> v]
Raised(e) == [kind |-> "raised", exc |-> e]

\* The call returns or its exception reaches the caller: the frame is gone.
Return ==
  /\ pc \in {"done", "raised"}
  /\ pc' = "idle"
  /\ op' = "none"
  /\ args' = NoArgs
  /\ locals' = NoLocals
  /\ log' = <<>>
  /\ ret' = NoRet
  /\ pre' = NoPre
  /\ UNCHANGED <<hist, config, outcomes>>

----------------------------------------------------------------------------
(* model_train *)

\* A faulty variant of TrainBatchEvents: the optimizer steps before the
\* gradients are computed.
TrainBatchEvents_StepBeforeBackward(scheduler) ==
  <<"zero_grad", "forward", "criterion", "optimizer.step", "backward">>
    \o (IF scheduler THEN <<"scheduler.step">> ELSE <<>>)

\* Lines 50-68: the collaborator calls of one training batch, in order.
TrainBatchEvents(scheduler) ==
  <<"zero_grad", "forward", "criterion", "backward", "optimizer.step">>
    \o (IF scheduler THEN <<"scheduler.step">> ELSE <<>>)

\* Line 76: 100*correct/processed.
TrainAccuracy(correct, processed) == Frac(100 * correct, processed)

\* Lines 41-45.
model_train_call(loaders, epochs) ==
  /\ pc = "idle"
  /\ Len(train_accuracy) < epochs
  /\ \E ld \in loaders, sched \in BOOLEAN :
       args' = [loader |-> ld, scheduler |-> sched]
  /\ op' = "model_train"
  /\ locals' = [train_loss |-> 0, correct |-> 0, processed |-> 0, batches |-> 0]
  /\ log' = <<"train">>
  /\ ret' = NoRet
  /\ pre' = hist
  /\ pc' = "train_loop"
  /\ UNCHANGED <<hist, config, outcomes>>

\* Lines 46-74: one iteration of the loop.
model_train_batch ==
  /\ pc = "train_loop"
  /\ locals.batches < args.loader.nb
  /\ \E b \in Batches(args.loader) :
       locals' = [train_loss |-> locals.train_loss + b.loss,
                  correct |-> locals.correct + b.c,
                  processed |-> locals.processed + b.n,
                  batches |-> locals.batches + 1]
  /\ log' = log \o TrainBatchEvents(args.scheduler)
  /\ UNCHANGED <<hist, config, pc, op, args, ret, pre, outcomes>>

\* Lines 47-68: a collaborator raises (a device or shape mismatch in the
\* forward pass); nothing catches it.
model_train_raise ==
  /\ pc = "train_loop"
  /\ locals.batches < args.loader.nb
  /\ log' = log \o <<"zero_grad", "forward">>
  /\ ret' = Raised("RuntimeError")
  /\ pc' = "raised"
  /\ UNCHANGED <<hist, config, op, args, locals, pre, outcomes>>

\* A faulty variant of model_train_finish: the loss is appended before the
\* accuracy is computed, so a pass over no samples still records a loss.
model_train_finish_LossFirst ==
  /\ pc = "train_loop"
  /\ locals.batches = args.loader.nb
  /\ train_losses' = Append(train_losses, locals.train_loss)
  /\ IF locals.processed = 0
       THEN /\ ret' = Raised("ZeroDivisionError")
            /\ pc' = "raised"
            /\ UNCHANGED <<train_accuracy, log, outcomes>>
       ELSE /\ train_accuracy' =
                 Append(train_accuracy, Frac(100 * locals.correct, locals.processed))
            /\ log' = log \o <<"append">>
            /\ ret' = Returned("None")
            /\ pc' = "done"
            /\ outcomes' = [outcomes EXCEPT !.train_done = @ + 1]
  /\ UNCHANGED <<test_accuracy, test_losses, config, op, args, locals, pre>>

\* A faulty variant of model_train_finish: the lists are assigned to, not
\* appended to.
model_train_finish_Assign ==
  /\ pc = "train_loop"
  /\ locals.batches = args.loader.nb
  /\ IF locals.processed = 0
       THEN /\ ret' = Raised("ZeroDivisionError")
            /\ pc' = "raised"
            /\ UNCHANGED <<hist, log, outcomes>>
       ELSE /\ train_accuracy' = <<Frac(100 * locals.correct, locals.processed)>>
            /\ train_losses' = <<locals.train_loss>>
            /\ log' = log \o <<"append">>
            /\ ret' = Returned("None")
            /\ pc' = "done"
            /\ outcomes' = [outcomes EXCEPT !.train_done = @ + 1]
            /\ UNCHANGED <<test_accuracy, test_losses>>
  /\ UNCHANGED <<config, op, args, locals, pre>>

\* Lines 76-77, after the loader is exhausted.
model_train_finish ==
  /\ pc = "train_loop"
  /\ locals.batches = args.loader.nb
  /\ IF locals.processed = 0
       THEN /\ ret' = Raised("ZeroDivisionError")
            /\ pc' = "raised"
            /\ UNCHANGED <<hist, log, outcomes>>
       ELSE /\ train_accuracy' =
                 Append(train_accuracy, TrainAccuracy(locals.correct, locals.processed))
            /\ train_losses' = Append(train_losses, locals.train_loss)
            /\ log' = log \o <<"append">>
            /\ ret' = Returned("None")
            /\ pc' = "done"
            /\ outcomes' = [outcomes EXCEPT !.train_done = @ + 1]
            /\ UNCHANGED <<test_accuracy, test_losses>>
  /\ UNCHANGED <<config, op, args, locals, pre>>

----------------------------------------------------------------------------
(* model_test *)

\* Lines 95-98: the loss calls of one test batch.
TestLossEvents(criterion) ==
  IF criterion = "accepts_reduction"
    THEN <<"criterion(reduction=sum)">>
    ELSE <<"criterion(reduction=sum) raised", "criterion">>

\* A faulty variant of TestLossStep: the fallback call adds to what the
\* rejected call already added.
TestLossStep_Twice(criterion, loss) ==
  IF criterion = "rejects_reduction" THEN loss + loss ELSE loss

\* Lines 95-98: what one batch adds to test_loss.
TestLossStep(criterion, loss) == loss

\* Line 105: test_loss / (len(dataset) / batch_size).
NormalizedLoss(test_loss, ds, bs) == Frac(test_loss * bs, ds)

\* Line 107: 100. * correct / len(dataset).
TestAccuracy(correct, ds) == Frac(100 * correct, ds)

\* Lines 108-114: the summary line.
Summary(test_loss, correct, ds, test_acc, train_acc) ==
  [kind |-> "printed",
   loss |-> Round(test_loss, 4),
   correct |-> correct,
   total |-> ds,
   accuracy |-> Round(TestAccuracy(correct, ds), 2),
   diff |-> Abs(Round(FracSub(test_acc, train_acc), 4))]

\* Lines 87-91.
model_test_call(loaders, epochs) ==
  /\ pc = "idle"
  /\ Len(test_losses) < epochs
  /\ \E ld \in loaders, crit \in Criteria :
       args' = [loader |-> ld, criterion |-> crit]
  /\ op' = "model_test"
  /\ locals' = [test_loss |-> <<0, 1>>, correct |-> 0, processed |-> 0,
                batches |-> 0, losses |-> <<>>]
  /\ log' = <<"eval">>
  /\ ret' = NoRet
  /\ pre' = hist
  /\ pc' = "test_loop"
  /\ UNCHANGED <<hist, config, outcomes>>

\* Lines 92-101: one iteration of the loop.  locals.losses keeps the values
\* the loss function returned, batch by batch.
model_test_batch ==
  /\ pc = "test_loop"
  /\ locals.batches < args.loader.nb
  /\ \E b \in Batches(args.loader) :
       locals' = [test_loss |->
                    <<locals.test_loss[1] + TestLossStep(args.criterion, b.loss), 1>>,
                  correct |-> locals.correct + b.c,
                  processed |-> locals.processed + b.n,
                  batches |-> locals.batches + 1,
                  losses |-> Append(locals.losses, b.loss)]
  /\ log' = log \o <<"forward">> \o TestLossEvents(args.criterion)
  /\ UNCHANGED <<hist, config, pc, op, args, ret, pre, outcomes>>

\* Lines 93-94: a collaborator raises inside the loop.
model_test_raise ==
  /\ pc = "test_loop"
  /\ locals.batches < args.loader.nb
  /\ log' = log \o <<"forward">>
  /\ ret' = Raised("RuntimeError")
  /\ pc' = "raised"
  /\ UNCHANGED <<hist, config, op, args, locals, pre, outcomes>>

\* A faulty variant of model_test_finish: with no train accuracy recorded the
\* summary reports the test accuracy itself as the difference.
model_test_finish_GuardedDiff ==
  /\ pc = "test_loop"
  /\ locals.batches = args.loader.nb
  /\ test_losses' = Append(test_losses, locals.test_loss[1])
  /\ IF args.loader.ds = 0
       THEN /\ ret' = Raised("ZeroDivisionError")
            /\ pc' = "raised"
            /\ outcomes' = [outcomes EXCEPT !.test_zero_division = @ + 1]
            /\ UNCHANGED <<test_accuracy, locals>>
       ELSE /\ locals' = [locals EXCEPT !.test_loss =
                 Frac(locals.test_loss[1] * args.loader.bs, args.loader.ds)]
            /\ test_accuracy' =
                 Append(test_accuracy, Frac(100 * locals.correct, args.loader.ds))
            /\ ret' = [kind |-> "printed",
                       loss |-> Round(locals'.test_loss, 4),
                       correct |-> locals.correct,
                       total |-> args.loader.ds,
                       accuracy |-> Round(Last(test_accuracy'), 2),
                       diff |-> Abs(Round(FracSub(Last(test_accuracy'),
                                  IF train_accuracy = <<>> THEN <<0, 1>>
                                  ELSE Last(train_accuracy)), 4))]
            /\ pc' = "done"
            /\ outcomes' = [outcomes EXCEPT !.test_done = @ + 1]
  /\ UNCHANGED <<train_accuracy, train_losses, config, op, args, log, pre>>

\* A faulty variant of model_test_finish: the two entries are appended only
\* after the summary has been printed.
model_test_finish_AppendLast ==
  /\ pc = "test_loop"
  /\ locals.batches = args.loader.nb
  /\ IF args.loader.ds = 0
       THEN /\ ret' = Raised("ZeroDivisionError")
            /\ pc' = "raised"
            /\ UNCHANGED <<test_accuracy, test_losses, locals, outcomes>>
       ELSE /\ locals' = [locals EXCEPT !.test_loss =
                 Frac(locals.test_loss[1] * args.loader.bs, args.loader.ds)]
            /\ IF train_accuracy = <<>>
                 THEN /\ ret' = Raised("IndexError")
                      /\ pc' = "raised"
                      /\ outcomes' = [outcomes EXCEPT !.test_index_error = @ + 1]
                      /\ UNCHANGED <<test_accuracy, test_losses>>
                 ELSE /\ test_losses' = Append(test_losses, locals.test_loss[1])
                      /\ test_accuracy' =
                           Append(test_accuracy,
                                  Frac(100 * locals.correct, args.loader.ds))
                      /\ ret' = [kind |-> "printed",
                                 loss |-> Round(locals'.test_loss, 4),
                                 correct |-> locals.correct,
                                 total |-> args.loader.ds,
                                 accuracy |-> Round(Last(test_accuracy'), 2),
                                 diff |-> Abs(Round(FracSub(Last(test_accuracy'),
                                            Last(train_accuracy)), 4))]
                      /\ pc' = "done"
                      /\ outcomes' = [outcomes EXCEPT !.test_done = @ + 1]
  /\ UNCHANGED <<train_accuracy, train_losses, config, op, args, log, pre>>

\* Lines 103-114, after the loader is exhausted: the raw loss is appended,
\* then normalized (dividing by zero for an empty dataset), the accuracy is
\* appended, and the summary indexes the last train accuracy.
model_test_finish ==
  /\ pc = "test_loop"
  /\ locals.batches = args.loader.nb
  /\ test_losses' = Append(test_losses, locals.test_loss[1])
  /\ IF args.loader.ds = 0
       THEN /\ ret' = Raised("ZeroDivisionError")
            /\ pc' = "raised"
            /\ outcomes' = [outcomes EXCEPT !.test_zero_division = @ + 1]
            /\ UNCHANGED <<test_accuracy, locals>>
       ELSE /\ locals' = [locals EXCEPT !.test_loss =
                 NormalizedLoss(locals.test_loss[1], args.loader.ds, args.loader.bs)]
            /\ test_accuracy' =
                 Append(test_accuracy, TestAccuracy(locals.correct, args.loader.ds))
            /\ IF train_accuracy = <<>>
                 THEN /\ ret' = Raised("IndexError")
                      /\ pc' = "raised"
                      /\ outcomes' = [outcomes EXCEPT !.test_index_error = @ + 1]
                 ELSE /\ ret' = Summary(locals'.test_loss, locals.correct,
                                        args.loader.ds, Last(test_accuracy'),
                                        Last(train_accuracy))
                      /\ pc' = "done"
                      /\ outcomes' = [outcomes EXCEPT !.test_done = @ + 1]
  /\ UNCHANGED <<train_accuracy, train_losses, config, op, args, log, pre>>

----------------------------------------------------------------------------
(* print_summary, plot_accuracy, plot_loss *)

\* Line 30.
print_summary ==
  /\ pc = "idle"
  /\ op' = "print_summary"
  /\ args' = NoArgs
  /\ locals' = NoLocals
  /\ log' = <<"summary">>
  /\ ret' = Returned("None")
  /\ pre' = hist
  /\ pc' = "done"
  /\ UNCHANGED <<hist, config, outcomes>>

\* Lines 136-139 and 145-148: two curves over epochs 1..len(train_accuracy);
\* matplotlib rejects a curve whose length differs from that of epochs.
Plot(name, first, second) ==
  /\ pc = "idle"
  /\ op' = name
  /\ args' = NoArgs
  /\ locals' = [epochs |-> Len(train_accuracy)]
  /\ pre' = hist
  /\ IF Len(first) # Len(train_accuracy)
       THEN /\ log' = <<>>
            /\ ret' = Raised("ValueError")
            /\ pc' = "raised"
       ELSE IF Len(second) # Len(train_accuracy)
       THEN /\ log' = <<"plot">>
            /\ ret' = Raised("ValueError")
            /\ pc' = "raised"
       ELSE /\ log' = <<"plot", "plot", "legend">>
            /\ ret' = Returned("None")
            /\ pc' = "done"
  /\ UNCHANGED <<hist, config, outcomes>>

plot_accuracy == Plot("plot_accuracy", train_accuracy, test_accuracy)

plot_loss == Plot("plot_loss", train_losses, test_losses)

----------------------------------------------------------------------------
(* get_norm *)

NormTypes == {"bn", "ln", "gn", "in"}

BatchNorm2d(num_features) ==
  [layer |-> "BatchNorm2d", num_features |-> num_features]
GroupNorm(num_groups, num_channels) ==
  [layer |-> "GroupNorm", num_groups |-> num_groups, num_channels |-> num_channels]
NoLayer == [layer |-> "None"]

\* A faulty variant of GetNorm: layer normalization built with n_groups
\* groups.
GetNorm_LayerUsesGroups(type, groups, n_channels) ==
  IF type = "bn" THEN BatchNorm2d(n_channels)
  ELSE IF type = "ln" THEN GroupNorm(groups, n_channels)
  ELSE IF type = "gn" THEN GroupNorm(groups, n_channels)
  ELSE NoLayer

\* Lines 125-130; falling off the end returns None.
GetNorm(type, groups, n_channels) ==
  IF type = "bn" THEN BatchNorm2d(n_channels)
  ELSE IF type = "ln" THEN GroupNorm(1, n_channels)
  ELSE IF type = "gn" THEN GroupNorm(groups, n_channels)
  ELSE NoLayer

get_norm ==
  /\ pc = "idle"
  /\ \E n_channels \in 1..MaxChannels :
       /\ args' = [n_channels |-> n_channels]
       /\ ret' = Returned(GetNorm(norm_type, n_groups, n_channels))
  /\ op' = "get_norm"
  /\ locals' = NoLocals
  /\ log' = <<>>
  /\ pre' = hist
  /\ pc' = "done"
  /\ UNCHANGED <<hist, config, outcomes>>

\* The owner (a subclass constructor) assigns the two fields directly.
assign_norm ==
  /\ pc = "idle"
  /\ \E type \in NormTypes, groups \in 1..MaxGroups :
       /\ norm_type' = type
       /\ n_groups' = groups
  /\ UNCHANGED <<hist, pc, frame, outcomes>>

----------------------------------------------------------------------------
(* get_incorrect_pred *)

Classes == {0, 1}

\* A batch as the sequence of its samples: sample i is data[i], with its
\* target and the class the network predicts for it.
PredBatches(maxlen) ==
  UNION {[1..k -> [target : Classes, pred : Classes]] : k \in 1..maxlen}

\* Line 163: pred.eq(target).
Compare(batch) == [i \in 1..Len(batch) |-> batch[i].pred = batch[i].target]

\* Line 164: the positions where compare is False, ascending.
RECURSIVE Nonzero(_, _)
Nonzero(compare, from) ==
  IF from > Len(compare) THEN <<>>
  ELSE (IF compare[from] THEN <<>> ELSE <<from>>) \o Nonzero(compare, from + 1)

IncorrectIndx(compare) == Nonzero(compare, 1)

\* A faulty variant of Slice: incorrect_indx[-top_n:], the last top_n.
Slice_FromEnd(indx, top_n) ==
  SubSeq(indx, Len(indx) - Min(top_n, Len(indx)) + 1, Len(indx))

\* Line 165: incorrect_indx[:top_n], for top_n >= 0.
Slice(indx, top_n) == SubSeq(indx, 1, Min(top_n, Len(indx)))

\* Line 165: squeeze() turns a single index into a scalar.
Squeeze(indx) ==
  IF Len(indx) = 1 THEN [scalar |-> TRUE, at |-> indx[1]]
  ELSE [scalar |-> FALSE, at |-> indx]

\* Line 166: indexing with a scalar gives one element, with a list a list.
Take(values, indx) ==
  IF indx.scalar THEN values[indx.at]
  ELSE [k \in 1..Len(indx.at) |-> values[indx.at[k]]]

IncorrectPred(batch, top_n) ==
  LET top_n_pred == Squeeze(Slice(IncorrectIndx(Compare(batch)), top_n))
  IN [scalar |-> top_n_pred.scalar,
      data |-> Take([i \in 1..Len(batch) |-> i], top_n_pred),
      target |-> Take([i \in 1..Len(batch) |-> batch[i].target], top_n_pred),
      pred |-> Take([i \in 1..Len(batch) |-> batch[i].pred], top_n_pred)]

\* Lines 158-166; next() on a loader that yields nothing raises.
get_incorrect_pred(maxlen, maxtop) ==
  /\ pc = "idle"
  /\ op' = "get_incorrect_pred"
  /\ log' = <<>>
  /\ pre' = hist
  /\ \E nb \in 0..MaxBatches, top_n \in 0..maxtop :
       /\ args' = [loader |-> [nb |-> nb], top_n |-> top_n]
       /\ IF nb = 0
            THEN /\ locals' = [drawn |-> 0]
                 /\ ret' = Raised("StopIteration")
                 /\ pc' = "raised"
            ELSE \E batch \in PredBatches(maxlen) :
                 /\ locals' = [drawn |-> 1, batch |-> batch]
                 /\ ret' = Returned(IncorrectPred(batch, top_n))
                 /\ pc' = "done"
  /\ UNCHANGED <<hist, config, outcomes>>

----------------------------------------------------------------------------
(* Specifications *)

\* The harness with every operation, over several epochs.
Next ==
  \/ model_train_call(EpochLoaders, MaxEpochs)
  \/ model_train_batch
  \/ model_train_raise
  \/ model_train_finish
  \/ model_test_call(EpochLoaders, MaxEpochs)
  \/ model_test_batch
  \/ model_test_raise
  \/ model_test_finish
  \/ print_summary
  \/ plot_accuracy
  \/ plot_loss
  \/ get_norm
  \/ get_incorrect_pred(1, 1)
  \/ Return

Spec == Init /\ [][Next]_vars

\* One training and one test pass, over more loaders and batches.
LoopLoaders == Loaders \cup ScenarioLoaders

NextLoop ==
  \/ model_train_call(Loaders, 1)
  \/ model_train_batch
  \/ model_train_raise
  \/ model_train_finish
  \/ model_test_call(LoopLoaders, 1)
  \/ model_test_batch
  \/ model_test_raise
  \/ model_test_finish
  \/ Return

SpecLoop == Init /\ [][NextLoop]_vars

\* get_incorrect_pred over every batch up to MaxBatchLen samples.
NextPred ==
  \/ get_incorrect_pred(MaxBatchLen, MaxTopN)
  \/ Return

SpecPred == Init /\ [][NextPred]_vars

\* get_norm under every configuration the owner can assign.
NextNorm ==
  \/ assign_norm
  \/ get_norm
  \/ Return

SpecNorm == Init /\ [][NextNorm]_vars

----------------------------------------------------------------------------
(* Properties *)

IsPrefix(s, t) == Len(s) <= Len(t) /\ SubSeq(t, 1, Len(s)) = s
InTrain == op = "model_train"
InTest == op = "model_test"
Ended == pc \in {"done", "raised"}
RaisedWith(e) == pc = "raised" /\ ret.exc = e

\* C1: the two train lists always have the same length; a model_train call
\* that completes has made each exactly one longer than it was when the call
\* began, and one that fails (a loader that yields no batch) has left both
\* as they were.
C1_TrainListsInStep ==
  /\ Len(train_accuracy) = Len(train_losses)
  /\ InTrain /\ pc = "done" =>
       /\ Len(train_accuracy) = Len(pre[1]) + 1
       /\ Len(train_losses) = Len(pre[3]) + 1
  /\ InTrain /\ pc = "raised" =>
       /\ train_accuracy = pre[1]
       /\ train_losses = pre[3]
  /\ InTrain /\ Ended /\ locals.processed = 0 => pc = "raised"

C1_Witness ==
  /\ InTrain
  /\ pc = "done"
  /\ Len(pre[1]) = 1
  /\ Len(train_accuracy) = 2

\* C2: when a model_test call has completed, the two test lists have the same
\* length and the call has made each exactly one longer.
C2_TestListsInStep ==
  InTest /\ pc = "done" =>
    /\ Len(test_losses) = Len(test_accuracy)
    /\ Len(test_losses) = Len(pre[4]) + 1
    /\ Len(test_accuracy) = Len(pre[2]) + 1

\* C3: a model_test call made while train_accuracy is empty never completes,
\* and if it gets as far as the summary line it fails indexing the last train
\* accuracy; with a train accuracy recorded, a call on a non-empty dataset
\* never fails that way, and completes once the loader is exhausted.
C3_TestNeedsTrainAccuracy ==
  InTest /\ Ended =>
    /\ train_accuracy = <<>> => pc = "raised"
    /\ (train_accuracy = <<>> /\ args.loader.ds > 0
          /\ locals.batches = args.loader.nb) => RaisedWith("IndexError")
    /\ train_accuracy # <<>> => ~RaisedWith("IndexError")
    /\ (train_accuracy # <<>> /\ args.loader.ds > 0
          /\ locals.batches = args.loader.nb) => pc = "done"

C3_Witness ==
  /\ InTest
  /\ RaisedWith("IndexError")
  /\ train_accuracy = <<>>
  /\ args.loader.nb > 0

\* A float between 0 and 100.
Percent(x) == 0 <= x[1] /\ x[1] <= 100 * x[2]

\* C4: every recorded train and test accuracy lies between 0 and 100.
C4_AccuracyIsPercent ==
  /\ \A i \in 1..Len(train_accuracy) : Percent(train_accuracy[i])
  /\ \A i \in 1..Len(test_accuracy) : Percent(test_accuracy[i])

\* What get_incorrect_pred returned, as a sequence of triples.
Triples(value) ==
  IF value.scalar
    THEN << <<value.data, value.target, value.pred>> >>
    ELSE [k \in 1..Len(value.data) |->
            <<value.data[k], value.target[k], value.pred[k]>>]

Misclassified(batch) == {i \in 1..Len(batch) : batch[i].pred # batch[i].target}

\* C5: get_incorrect_pred draws one batch and returns the triples (sample,
\* target, prediction) of the first k misclassified positions of that batch,
\* in batch order, where k is the smaller of top_n and the number of
\* misclassified positions; so at most top_n and at most len(batch) triples.
C5_FirstTopNMisclassified ==
  op = "get_incorrect_pred" /\ pc = "done" =>
    LET batch == locals.batch
        wrong == Misclassified(batch)
        got == Triples(ret.value)
        k == Min(args.top_n, Cardinality(wrong))
    IN /\ locals.drawn = 1
       /\ Len(got) = k
       /\ Len(got) <= args.top_n
       /\ Len(got) <= Len(batch)
       /\ \A j \in 1..Len(got) :
            /\ got[j][1] \in wrong
            /\ got[j][2] = batch[got[j][1]].target
            /\ got[j][3] = batch[got[j][1]].pred
            /\ got[j][2] # got[j][3]
            /\ Cardinality({i \in wrong : i < got[j][1]}) = j - 1

C5_Witness ==
  /\ op = "get_incorrect_pred"
  /\ pc = "done"
  /\ args.top_n = 2
  /\ Cardinality(Misclassified(locals.batch)) = 3
  /\ Len(Triples(ret.value)) = 2

\* The loss calls of the running call that returned a value.
LossCalls ==
  Len(SelectSeq(log, LAMBDA e : e \in {"criterion(reduction=sum)", "criterion"}))

C7_NormByTag ==
  op = "get_norm" /\ Ended =>
    LET layer == ret.value
        c == args.n_channels
    IN /\ pc = "done"
       /\ norm_type = "bn" =>
            layer = [layer |-> "BatchNorm2d", num_features |-> c]
       /\ norm_type = "gn" =>
            layer = [layer |-> "GroupNorm", num_groups |-> n_groups,
                     num_channels |-> c]
       /\ norm_type = "ln" =>
            layer = [layer |-> "GroupNorm", num_groups |-> 1, num_channels |-> c]
       /\ norm_type \notin {"bn", "gn", "ln"} => layer = [layer |-> "None"]

C7_Witness ==
  /\ op = "get_norm"
  /\ pc = "done"
  /\ norm_type = "gn"
  /\ n_groups = 3
  /\ args.n_channels = 6
  /\ ret.value.layer = "GroupNorm"

\* What one step may do to the history.
C8_Step ==
  /\ IsPrefix(train_accuracy, train_accuracy')
  /\ IsPrefix(train_losses, train_losses')
  /\ IsPrefix(test_accuracy, test_accuracy')
  /\ IsPrefix(test_losses, test_losses')
  /\ op' = "model_train" => UNCHANGED <<test_accuracy, test_losses>>
  /\ op' = "model_test" => UNCHANGED <<train_accuracy, train_losses>>
  /\ op' \notin {"model_train", "model_test"} => UNCHANGED hist

\* C8: no step removes, reorders or overwrites a history entry: each list
\* before the step is a prefix of the list after it.  The steps of model_train
\* leave the test lists alone, those of model_test the train lists, and those
\* of every other operation all four.
C8_HistoryOnlyGrows == [][C8_Step]_vars

C8_Witness ==
  /\ InTest
  /\ pc = "done"
  /\ Len(train_accuracy) = 2
  /\ Len(test_accuracy) = 2
  /\ Len(pre[2]) = 1

\* The calls of one event, and the order expected within a batch.
Count(e) == Len(SelectSeq(log, LAMBDA x : x = e))

C9_BatchOrder ==
  IF args.scheduler
    THEN <<"zero_grad", "forward", "criterion", "backward", "optimizer.step",
           "scheduler.step">>
    ELSE <<"zero_grad", "forward", "criterion", "backward", "optimizer.step">>

\* C9: in a model_train call the collaborators are called, batch after batch,
\* in the order zero_grad, forward, criterion, backward, optimizer.step and,
\* with a scheduler, scheduler.step, once each per batch; the history is
\* appended to only after the steps of the last batch.
C9_TrainOrder ==
  InTrain =>
    /\ log = <<"train">> \o Repeat(C9_BatchOrder, locals.batches)
               \o (IF pc = "done" THEN <<"append">>
                   ELSE IF RaisedWith("RuntimeError") THEN <<"zero_grad", "forward">>
                   ELSE <<>>)
    /\ Count("optimizer.step") = locals.batches
    /\ Count("scheduler.step") = (IF args.scheduler THEN locals.batches ELSE 0)
    /\ Count("append") = 0 => hist = pre
    /\ Count("append") > 0 =>
         /\ locals.batches = args.loader.nb
         /\ Last(log) = "append"

C9_Witness ==
  /\ InTrain
  /\ pc = "done"
  /\ args.scheduler
  /\ locals.batches = 2

\* C10: a model_test call that fails for want of a train accuracy has by then
\* appended one entry to test_losses and one to test_accuracy, so each such
\* failure leaves the test lists one entry ahead: the lengths of the lists
\* are the numbers of completed calls plus the failed ones that appended.
\* The entry model_test appends to test_losses is the raw sum of the batch
\* losses, whatever the normalized loss is.
C10_FailedTestAppends ==
  /\ (InTest /\ RaisedWith("IndexError")) =>
       /\ Len(test_losses) = Len(pre[4]) + 1
       /\ Len(test_accuracy) = Len(pre[2]) + 1
  /\ Len(train_accuracy) = outcomes.train_done
  /\ Len(train_losses) = outcomes.train_done
  /\ Len(test_accuracy) = outcomes.test_done + outcomes.test_index_error
  /\ Len(test_losses) = outcomes.test_done + outcomes.test_index_error
                          + outcomes.test_zero_division
  /\ (/\ outcomes.test_index_error = 1
      /\ outcomes.test_zero_division = 0
      /\ outcomes.train_done = outcomes.test_done) =>
       /\ Len(test_accuracy) = Len(train_accuracy) + 1
       /\ Len(test_losses) = Len(train_losses) + 1
  /\ (InTest /\ Len(test_losses) > Len(pre[4])) =>
       Last(test_losses) = SumSeq(locals.losses)

C10_Witness ==
  /\ InTest
  /\ pc = "done"
  /\ outcomes = [train_done |-> 1, test_done |-> 1,
                 test_index_error |-> 1, test_zero_division |-> 0]
  /\ Len(test_accuracy) = 2
  /\ Len(train_accuracy) = 1
  /\ locals.test_loss # <<Last(test_losses), 1>>

====
